---- MODULE Spec2Model ----
(***************************************************************************)
(* Model of the Face Anonymizer backend (src/backend/main.py): the per-IP  *)
(* rate limiter, the face locator with its fallback, the region            *)
(* anonymizer, the frame-by-frame video pipeline and the three request     *)
(* handlers.  Library calls (DeepFace, OpenCV, tempfile) are modelled by   *)
(* the outcomes the code distinguishes: a returned value or a raised       *)
(* exception.                                                              *)
(***************************************************************************)
EXTENDS Integers, Sequences, FiniteSets, TLC

VARIABLES
    \* ---- rate limiter (lines 27-58)
    rate_limit_storage,  \* ip -> list of timestamps (defaultdict(list))
    now,                 \* the wall clock read by datetime.now()
    accepted,            \* history: ip -> times at which check_rate_limit returned True
    last,                \* history: the last rate-limiter call and what it returned
    \* ---- face locator (lines 60-98) and process_image (lines 127-136)
    det_pc, det_lib, det_calls, det_result, det_count,
    \* ---- region anonymizer (lines 100-125)
    an_pc, an_image, an_orig, an_args, an_target,
    \* ---- video pipeline (lines 138-176)
    v_pc, v_video, v_method, v_intensity, v_pos, v_frame, v_processed,
    v_written, frame_count, total_faces, cap_released, out_released, v_return,
    \* ---- request handlers (lines 203-403)
    ep_pc, ep_req, ep_locals, ep_files, ep_results, ep_response, ep_trace, ep_served

rateVars == <<rate_limit_storage, now, accepted, last>>
detVars == <<det_pc, det_lib, det_calls, det_result, det_count>>
anVars == <<an_pc, an_image, an_orig, an_args, an_target>>
videoVars == <<v_pc, v_video, v_method, v_intensity, v_pos, v_frame, v_processed,
               v_written, frame_count, total_faces, cap_released, out_released, v_return>>
epVars == <<ep_pc, ep_req, ep_locals, ep_files, ep_results, ep_response, ep_trace,
            ep_served>>
vars == <<rateVars, detVars, anVars, videoVars, epVars>>

(***************************************************************************)
(* Bounds of the model.                                                    *)
(***************************************************************************)
MaxTime == 2

IPs == {"10.0.0.1", "10.0.0.2"}

(***************************************************************************)
(* Rate limiter.  Time is counted in ticks of half a day, so the one-day   *)
(* window is two ticks.                                                    *)
(***************************************************************************)
RATE_LIMIT == 5
RATE_LIMIT_WINDOW == 2

\* lines 36-39 and 52-55: keep the timestamps younger than the window
CleanOld(stamps, t) ==
    SelectSeq(stamps, LAMBDA ts : t - ts < RATE_LIMIT_WINDOW)

LimitReachedOffByOne(cleaned) == Len(cleaned) > RATE_LIMIT

\* line 42
LimitReached(cleaned) == Len(cleaned) >= RATE_LIMIT

\* lines 32-47: the returned flag and the storage it leaves
check_rate_limit(storage, ip, t) ==
    LET cleaned == CleanOld(storage[ip], t) IN
    IF LimitReached(cleaned)
    THEN [ret |-> FALSE, storage |-> [storage EXCEPT ![ip] = cleaned]]
    ELSE [ret |-> TRUE, storage |-> [storage EXCEPT ![ip] = Append(cleaned, t)]]

Max(a, b) == IF a >= b THEN a ELSE b

Range(f) == {f[i] : i \in DOMAIN f}

IsList(v) == DOMAIN v = 1..Len(v)

\* lines 49-58: the returned dict and the storage it leaves
get_remaining_uses(storage, ip, t) ==
    LET cleaned == CleanOld(storage[ip], t)
        used == Len(cleaned) IN
    [ret |-> [used |-> used, remaining |-> Max(0, RATE_LIMIT - used),
              limit |-> RATE_LIMIT],
     storage |-> [storage EXCEPT ![ip] = cleaned]]

RateInit ==
    /\ rate_limit_storage = [ip \in IPs |-> <<>>]
    /\ now = 0
    /\ accepted = [ip \in IPs |-> <<>>]
    /\ last = [op |-> "none"]

\* datetime.now() never goes back
Tick ==
    /\ now < MaxTime
    /\ now' = now + 1
    /\ last' = [op |-> "tick"]
    /\ UNCHANGED <<rate_limit_storage, accepted>>

CallCheckRateLimit(ip) ==
    LET r == check_rate_limit(rate_limit_storage, ip, now) IN
    /\ rate_limit_storage' = r.storage
    /\ accepted' = IF r.ret THEN [accepted EXCEPT ![ip] = Append(@, now)] ELSE accepted
    /\ last' = [op |-> "check", ip |-> ip, ret |-> r.ret]
    /\ UNCHANGED now

CallGetRemainingUses(ip) ==
    LET r == get_remaining_uses(rate_limit_storage, ip, now) IN
    /\ rate_limit_storage' = r.storage
    /\ last' = [op |-> "remaining", ip |-> ip, ret |-> r.ret]
    /\ UNCHANGED <<now, accepted>>

(***************************************************************************)
(* Region anonymizer.  A raster is [h, w, px] with px a function of        *)
(* <<row, col>>, rows 0..h-1 and columns 0..w-1 (one value per pixel: the  *)
(* three channels are treated alike by every method).                      *)
(***************************************************************************)
FrameW == 3
FrameH == 2
MaxIntensity == 3

Min(a, b) == IF a <= b THEN a ELSE b

Methods == {"blur", "pixelate", "mask", "other"}
Intensities == 1..MaxIntensity
\* The method and intensity pairs requests are made with
ApiParams ==
    {[method |-> "blur", intensity |-> 1],
     [method |-> "mask", intensity |-> 2],
     [method |-> "pixelate", intensity |-> 3]}

\* The indices a Python slice [start:stop] selects in a dimension of length n
SliceRange(start, stop, n) ==
    LET norm(i) == IF i < 0 THEN Max(i + n, 0) ELSE Min(i, n) IN
    norm(start)..(norm(stop) - 1)

SliceRowsOffByOne(image, y, h) == SliceRange(y, y + h - 1, image.h)

\* line 103 (and 124): the rows and the columns of image[y:y+h, x:x+w]
SliceRows(image, y, h) == SliceRange(y, y + h, image.h)
SliceCols(image, x, w) == SliceRange(x, x + w, image.w)

Positions(h, w) == (0..(h - 1)) \X (0..(w - 1))

SetMin(S) == CHOOSE m \in S : \A k \in S : m <= k

\* line 103: the sub-raster face_region
SubRaster(image, rows, cols) ==
    LET rh == Cardinality(rows)
        rw == Cardinality(cols) IN
    [h |-> rh, w |-> rw,
     px |-> [p \in Positions(rh, rw) |->
                image.px[<<SetMin(rows) + p[1], SetMin(cols) + p[2]>>]]]

RECURSIVE SumOver(_, _)
SumOver(px, S) ==
    IF S = {} THEN 0
    ELSE LET p == CHOOSE q \in S : TRUE IN px[p] + SumOver(px, S \ {p})

\* line 107: the kernel size, coerced to odd
KernelSize(intensity) == IF intensity % 2 = 1 THEN intensity ELSE intensity + 1

\* line 108: cv2.GaussianBlur rejects an empty source and a kernel that is
\* not positive and odd
GaussianBlurFails(src, k) == src.h = 0 \/ src.w = 0 \/ k <= 0 \/ k % 2 = 0

\* line 108: cv2.GaussianBlur keeps the shape; a kernel of 1 is the
\* identity, a larger one smooths (here: to the mean of the region)
GaussianBlur(src, k) ==
    IF k = 1 THEN src
    ELSE [src EXCEPT !.px = [p \in DOMAIN src.px |->
              SumOver(src.px, DOMAIN src.px) \div (src.h * src.w)]]

\* line 112: the downscale target (width, height)
PixelateTarget(w, h, intensity) == <<w \div intensity, h \div intensity>>

\* lines 112, 114: cv2.resize rejects an empty source and a target with a
\* dimension that is not positive
ResizeFails(src, dw, dh) == src.h = 0 \/ src.w = 0 \/ dw <= 0 \/ dh <= 0

\* line 112: cv2.resize(..., INTER_LINEAR), downscaling: each target pixel
\* mixes the source pixels of its block (here: their mean)
ResizeLinear(src, dw, dh) ==
    LET block(i, n, d) ==
            LET lo == (i * n) \div d
                hi == ((i + 1) * n) \div d IN
            lo..Max(lo, hi - 1) IN
    [h |-> dh, w |-> dw,
     px |-> [p \in Positions(dh, dw) |->
                LET B == block(p[1], src.h, dh) \X block(p[2], src.w, dw) IN
                SumOver(src.px, B) \div Cardinality(B)]]

\* line 114: cv2.resize(..., INTER_NEAREST)
ResizeNearest(src, dw, dh) ==
    [h |-> dh, w |-> dw,
     px |-> [p \in Positions(dh, dw) |->
                src.px[<<(p[1] * src.h) \div dh, (p[2] * src.w) \div dw>>]]]


\* line 118: np.zeros_like
ZerosLike(src) == [src EXCEPT !.px = [p \in DOMAIN src.px |-> 0]]

\* line 124: numpy broadcasts a source dimension only when it equals the
\* target's or is 1
Broadcastable(src, rows, cols) ==
    /\ src.h = Cardinality(rows) \/ src.h = 1
    /\ src.w = Cardinality(cols) \/ src.w = 1

\* line 124: image[y:y+h, x:x+w] = anonymized
AssignRegion(image, rows, cols, src) ==
    [image EXCEPT !.px = [p \in DOMAIN image.px |->
        IF p[1] \in rows /\ p[2] \in cols
        THEN src.px[<<IF src.h = 1 THEN 0 ELSE p[1] - SetMin(rows),
                      IF src.w = 1 THEN 0 ELSE p[2] - SetMin(cols)>>]
        ELSE image.px[p]]]

\* lines 100-125: anonymize_face, its outcome (the image returned, or the
\* exception raised by OpenCV or numpy) and the downscale target it used
anonymize_face(image, x, y, w, h, method, intensity) ==
    LET rows == SliceRows(image, y, h)
        cols == SliceCols(image, x, w)
        face_region == SubRaster(image, rows, cols)
        target == PixelateTarget(w, h, intensity)
        done(anonymized, tgt) ==
            IF Broadcastable(anonymized, rows, cols)
            THEN [kind |-> "return", target |-> tgt,
                  image |-> AssignRegion(image, rows, cols, anonymized)]
            ELSE [kind |-> "raise", target |-> tgt, image |-> image]
        fail(tgt) == [kind |-> "raise", target |-> tgt, image |-> image] IN
    CASE method = "blur" ->
            IF GaussianBlurFails(face_region, KernelSize(intensity))
            THEN fail(<<>>)
            ELSE done(GaussianBlur(face_region, KernelSize(intensity)), <<>>)
      [] method = "pixelate" ->
            IF ResizeFails(face_region, target[1], target[2])
            THEN fail(target)
            ELSE LET small_face == ResizeLinear(face_region, target[1], target[2]) IN
                 IF ResizeFails(small_face, w, h)
                 THEN fail(target)
                 ELSE done(ResizeNearest(small_face, w, h), target)
      [] method = "mask" -> done(ZerosLike(face_region), <<>>)
      [] OTHER -> done(face_region, <<>>)

\* The frames and the regions the anonymizer is run on
Gradient(h, w) == [h |-> h, w |-> w, px |-> [p \in Positions(h, w) |-> 1 + p[1] * w + p[2]]]
Uniform(h, w, v) == [h |-> h, w |-> w, px |-> [p \in Positions(h, w) |-> v]]
Frames == {Gradient(FrameH, FrameW), Uniform(FrameH, FrameW, 9), Uniform(FrameH, FrameW, 0)}
Regions == (0..(FrameW - 1)) \X (0..(FrameH - 1)) \X (0..(FrameW + 1)) \X (0..(FrameH + 1))

AnInit ==
    /\ an_pc = "call"
    /\ an_image \in Frames
    /\ an_orig = an_image
    /\ an_args \in [x : 0..(FrameW - 1), y : 0..(FrameH - 1),
                    w : 0..(FrameW + 1), h : 0..(FrameH + 1),
                    method : Methods, intensity : Intensities]
    /\ an_target = <<>>

AnonymizeFace ==
    /\ an_pc = "call"
    /\ LET r == anonymize_face(an_image, an_args.x, an_args.y, an_args.w, an_args.h,
                               an_args.method, an_args.intensity) IN
       /\ an_pc' = IF r.kind = "return" THEN "returned" ELSE "raised"
       /\ an_image' = r.image
       /\ an_target' = r.target
    /\ UNCHANGED <<an_orig, an_args>>

(***************************************************************************)
(* Face locator.  A library call ends in [kind |-> "return", value |-> v]  *)
(* or in [kind |-> "raise", value |-> <<>>].  A Python dict is a function  *)
(* whose domain holds the keys present.                                    *)
(***************************************************************************)
MaxFaces == 2

Return(v) == [kind |-> "return", value |-> v]
Raise == [kind |-> "raise", value |-> <<>>]

EmptyDict == [k \in {} |-> 0]

\* dict.get(key, default)
Get(d, key, default) == IF key \in DOMAIN d THEN d[key] ELSE default

\* What DeepFace.extract_faces may return for one face: a dict with or
\* without 'facial_area', whose keys x, y, w, h are each present or not;
\* the values present are those of a valid rectangle
XYVals == {1}
WHVals == {2}
AreaKeys == {"x", "y", "w", "h"}
AreaDicts ==
    UNION {{d \in [S -> XYVals \cup WHVals] :
               \A k \in S : d[k] \in (IF k \in {"x", "y"} THEN XYVals ELSE WHVals)} :
           S \in SUBSET AreaKeys}
FaceDicts == {EmptyDict} \cup {[facial_area |-> a] : a \in AreaDicts}

SeqsUpTo(S, n) == UNION {[1..k -> S] : k \in 0..n}

\* lines 73-79: the locations one detection result contributes
FacialArea(face) ==
    LET facial_area == Get(face, "facial_area", EmptyDict) IN
    IF DOMAIN facial_area # {}
    THEN <<<<Get(facial_area, "x", 0), Get(facial_area, "y", 0),
             Get(facial_area, "w", 0), Get(facial_area, "h", 0)>>>>
    ELSE <<>>

\* lines 71-81: face_locations
RECURSIVE FaceLocations(_)
FaceLocations(faces) ==
    IF faces = <<>> THEN <<>>
    ELSE FacialArea(Head(faces)) \o FaceLocations(Tail(faces))

OpencvOnErrorPropagates == Raise

\* lines 96-98: the handler of detect_faces_opencv
OpencvOnError == Return(<<>>)

\* lines 87-98: detect_faces_opencv, given how the cascade search ends
detect_faces_opencv(cascade) ==
    IF cascade.kind = "raise" THEN OpencvOnError ELSE Return(cascade.value)

\* lines 62, 82-85: the fallback runs when the try block raised
DeepfaceFallback(primary, cascade) == primary.kind = "raise"

\* lines 60-85: detect_faces_deepface, given how DeepFace.extract_faces and
\* the cascade search end; calls lists the detectors invoked
detect_faces_deepface(primary, cascade) ==
    IF DeepfaceFallback(primary, cascade)
    THEN [out |-> detect_faces_opencv(cascade), calls |-> <<"deepface", "opencv">>]
    ELSE [out |-> Return(FaceLocations(primary.value)), calls |-> <<"deepface">>]

\* lines 133-134: the loop over face_locations, from the i-th on
RECURSIVE AnonymizeAll(_, _, _, _)
AnonymizeAll(image, locs, method, intensity) ==
    IF locs = <<>> THEN Return(image)
    ELSE LET f == Head(locs)
             r == anonymize_face(image, f[1], f[2], f[3], f[4], method, intensity) IN
         IF r.kind = "raise" THEN Raise
         ELSE AnonymizeAll(r.image, Tail(locs), method, intensity)

\* lines 127-136: process_image once the locator has answered
ProcessLocated(image, located, method, intensity) ==
    IF located.kind = "raise" THEN Raise
    ELSE LET r == AnonymizeAll(image, located.value, method, intensity) IN
         IF r.kind = "raise" THEN Raise
         ELSE Return([image |-> r.value, count |-> Len(located.value)])

\* lines 127-136: process_image
process_image(image, primary, cascade, method, intensity) ==
    ProcessLocated(image, detect_faces_deepface(primary, cascade).out, method, intensity)

\* What the two detectors may do on a frame
PrimaryOutcomes == {Raise} \cup {Return(fs) : fs \in SeqsUpTo(FaceDicts, MaxFaces)}
CascadeRects == {<<0, 0, 2, 2>>, <<1, 0, 1, 1>>}
CascadeOutcomes == {Raise} \cup {Return(fs) : fs \in SeqsUpTo(CascadeRects, MaxFaces)}

NotCalled == [kind |-> "not called", value |-> <<>>]

DetInit ==
    /\ det_pc = "primary"
    /\ det_lib = [primary |-> NotCalled, cascade |-> NotCalled]
    /\ det_calls = <<>>
    /\ det_result = NotCalled
    /\ det_count = NotCalled

\* lines 64-81: extract_faces returns and its results are normalized (the
\* cascade is not consulted)
PrimaryReturns(faces) ==
    /\ det_pc = "primary"
    /\ det_lib' = [det_lib EXCEPT !.primary = Return(faces)]
    /\ LET d == detect_faces_deepface(Return(faces), NotCalled) IN
       /\ det_result' = d.out
       /\ det_calls' = d.calls
    /\ det_pc' = "located"
    /\ UNCHANGED det_count

\* lines 82-85: the try block raises
PrimaryRaises ==
    /\ det_pc = "primary"
    /\ det_lib' = [det_lib EXCEPT !.primary = Raise]
    /\ det_pc' = "fallback"
    /\ UNCHANGED <<det_calls, det_result, det_count>>

\* lines 87-98: the cascade detector answers or raises
CascadeAnswers(cascade) ==
    /\ det_pc = "fallback"
    /\ det_lib' = [det_lib EXCEPT !.cascade = cascade]
    /\ LET d == detect_faces_deepface(det_lib.primary, cascade) IN
       /\ det_result' = d.out
       /\ det_calls' = d.calls
    /\ det_pc' = "located"
    /\ UNCHANGED det_count

\* lines 133-136: the caller anonymizes each location and counts them
ProcessImage(method, intensity) ==
    /\ det_pc = "located"
    /\ det_count' = LET r == ProcessLocated(Gradient(FrameH, FrameW), det_result,
                                            method, intensity) IN
                    IF r.kind = "raise" THEN Raise ELSE Return(r.value.count)
    /\ det_pc' = "done"
    /\ UNCHANGED <<det_lib, det_calls, det_result>>

(***************************************************************************)
(* Video pipeline.  A video is [opened, frames]: whether the capture could *)
(* be opened, and for each decodable frame its image and what the two      *)
(* detectors do on it.  cap.read() answers (True, frame) for each frame in *)
(* turn, then (False, None).                                               *)
(***************************************************************************)
MaxFrames == 3

FaceAt(x, y, w, h) == [facial_area |-> [k \in AreaKeys |->
    CASE k = "x" -> x [] k = "y" -> y [] k = "w" -> w [] OTHER -> h]]

Scenes ==
    {[primary |-> Return(<<>>), cascade |-> NotCalled],
     [primary |-> Return(<<FaceAt(0, 0, 2, 2)>>), cascade |-> NotCalled],
     [primary |-> Return(<<FaceAt(0, 0, 2, 2), FaceAt(1, 0, 2, 2)>>), cascade |-> NotCalled],
     [primary |-> Raise, cascade |-> Return(<<<<1, 0, 1, 1>>>>)],
     [primary |-> Raise, cascade |-> Raise]}

\* The k-th frame of a video showing the given scenes
FrameOf(k, scene) ==
    [image |-> Uniform(FrameH, FrameW, 10 * k),
     primary |-> scene.primary, cascade |-> scene.cascade]

Videos ==
    {[opened |-> o, frames |-> [k \in DOMAIN sc |-> FrameOf(k, sc[k])]] :
        o \in BOOLEAN, sc \in SeqsUpTo(Scenes, MaxFrames)}

\* line 161: process_image(frame.copy(), method, intensity)
ProcessFrame(frame, method, intensity) ==
    process_image(frame.image, frame.primary, frame.cascade, method, intensity)

AddFacesOffByOne(total, faces_count) == total + faces_count + 1

\* line 162
AddFaces(total, faces_count) == total + faces_count

\* line 166
NextFrameCount(n) == n + 1

VideoInit ==
    /\ v_pc = "open"
    /\ v_video \in Videos
    /\ v_method \in Methods
    /\ v_intensity \in Intensities
    /\ v_pos = 0
    /\ v_frame = <<>>
    /\ v_processed = <<>>
    /\ v_written = <<>>
    /\ frame_count = 0
    /\ total_faces = 0
    /\ cap_released = FALSE
    /\ out_released = FALSE
    /\ v_return = NotCalled

\* lines 140-153: the capture and the writer are created, the counters reset
OpenVideo ==
    /\ v_pc = "open"
    /\ v_pc' = "loop"
    /\ frame_count' = 0
    /\ total_faces' = 0
    /\ UNCHANGED <<v_video, v_method, v_intensity, v_pos, v_frame, v_processed,
                   v_written, cap_released, out_released, v_return>>

\* line 155: while cap.isOpened()
LoopTest ==
    /\ v_pc = "loop"
    /\ v_pc' = IF v_video.opened THEN "read" ELSE "release"
    /\ UNCHANGED <<v_video, v_method, v_intensity, v_pos, v_frame, v_processed,
                   v_written, frame_count, total_faces, cap_released, out_released,
                   v_return>>

\* lines 156-158: ret, frame = cap.read(); break when ret is False
ReadFrame ==
    /\ v_pc = "read"
    /\ IF v_pos < Len(v_video.frames)
       THEN /\ v_frame' = v_video.frames[v_pos + 1]
            /\ v_pos' = v_pos + 1
            /\ v_pc' = "process"
       ELSE /\ v_pc' = "release"
            /\ UNCHANGED <<v_frame, v_pos>>
    /\ UNCHANGED <<v_video, v_method, v_intensity, v_processed, v_written,
                   frame_count, total_faces, cap_released, out_released, v_return>>

\* lines 161-162: the frame is processed and its faces are added; an
\* exception of process_image leaves the function at once
ProcessStep ==
    /\ v_pc = "process"
    /\ LET r == ProcessFrame(v_frame, v_method, v_intensity) IN
       IF r.kind = "raise"
       THEN /\ v_pc' = "raised"
            /\ v_return' = Raise
            /\ UNCHANGED <<v_processed, total_faces>>
       ELSE /\ v_pc' = "write"
            /\ v_processed' = r.value.image
            /\ total_faces' = AddFaces(total_faces, r.value.count)
            /\ UNCHANGED v_return
    /\ UNCHANGED <<v_video, v_method, v_intensity, v_pos, v_frame, v_written,
                   frame_count, cap_released, out_released>>

\* line 165: out.write(processed_frame)
WriteFrame ==
    /\ v_pc = "write"
    /\ v_written' = Append(v_written, v_processed)
    /\ v_pc' = "count"
    /\ UNCHANGED <<v_video, v_method, v_intensity, v_pos, v_frame, v_processed,
                   frame_count, total_faces, cap_released, out_released, v_return>>

\* lines 166-171: frame_count += 1 (and the progress line), back to the test
CountFrame ==
    /\ v_pc = "count"
    /\ frame_count' = NextFrameCount(frame_count)
    /\ v_pc' = "loop"
    /\ UNCHANGED <<v_video, v_method, v_intensity, v_pos, v_frame, v_processed,
                   v_written, total_faces, cap_released, out_released, v_return>>

\* lines 173-176: both handles are released and the totals returned
ReleaseAndReturn ==
    /\ v_pc = "release"
    /\ cap_released' = TRUE
    /\ out_released' = TRUE
    /\ v_return' = Return(<<total_faces, frame_count>>)
    /\ v_pc' = "returned"
    /\ UNCHANGED <<v_video, v_method, v_intensity, v_pos, v_frame, v_processed,
                   v_written, frame_count, total_faces>>

(***************************************************************************)
(* Request handlers.  A response is [kind, status, detail, body] with kind *)
(* "response" (returned), "HTTPException" (raised for the framework to     *)
(* answer with its status) or "unhandled" (any other exception leaving the *)
(* handler).  An upload is [filename, content_type, decoded]: decoded is   *)
(* what cv2.imdecode makes of its bytes, a frame or NoImage (None).        *)
(***************************************************************************)
MaxRequests == 6
MaxBatch == 3
BATCH_LIMIT == 10

\* cv2.imdecode's None, kept apart from every frame by its empty raster
NoImage == [image |-> Uniform(0, 0, 0), primary |-> NotCalled, cascade |-> NotCalled]
\* A local variable no assignment has bound yet
Unbound == <<>>
NoBody == <<>>

\* A message: its text, the status code str() puts before the text of an
\* HTTPException (0: none), and the numbers formatted into it
Msg(text) == [code |-> 0, text |-> text, used |-> 0, limit |-> 0]
\* An exception: its type, its status (of an HTTPException) and its message
Exc(type, status, msg) == [type |-> type, status |-> status, msg |-> msg]
RaiseExc(e) == [kind |-> "raise", value |-> e]
HTTPException(status, detail) ==
    [kind |-> "HTTPException", status |-> status, detail |-> detail, body |-> NoBody]
Unhandled(e) == [kind |-> "unhandled", status |-> 500, detail |-> e.msg, body |-> NoBody]
Response(body) == [kind |-> "response", status |-> 200, detail |-> Msg(""), body |-> body]
\* str(e) of a caught exception: "<status>: <detail>" for an HTTPException
StrOf(e) ==
    IF e.type = "HTTPException" THEN [e.msg EXCEPT !.code = e.status] ELSE e.msg

ApiScenes ==
    {[primary |-> Return(<<>>), cascade |-> NotCalled],
     [primary |-> Return(<<FaceAt(0, 0, 2, 2)>>), cascade |-> NotCalled]}

UploadKinds ==
    {[content_type |-> "image/png", decoded |-> FrameOf(1, sc)] : sc \in ApiScenes}
    \cup {[content_type |-> "image/png", decoded |-> NoImage],
          [content_type |-> "text/plain", decoded |-> NoImage],
          [content_type |-> "None", decoded |-> NoImage]}

Named(upload, name) ==
    [filename |-> name, content_type |-> upload.content_type, decoded |-> upload.decoded]

\* file.content_type.startswith(prefix): an AttributeError when the part
\* carries no content type
StartsWith(content_type, prefix) ==
    IF content_type = "None" THEN RaiseExc(Exc("AttributeError", 0, Msg("AttributeError")))
    ELSE Return(<<content_type, prefix>> \in
                    {<<"image/png", "image/">>, <<"video/mp4", "video/">>})

\* lines 211-218, 264-271, 338-345: the rate-limit gate of every handler
RateGate(storage, ip, t) ==
    LET c == check_rate_limit(storage, ip, t) IN
    IF c.ret THEN [pass |-> TRUE, storage |-> c.storage, response |-> NoBody]
    ELSE LET u == get_remaining_uses(c.storage, ip, t) IN
         [pass |-> FALSE, storage |-> u.storage,
          response |-> HTTPException(429, [Msg("Rate limit exceeded") EXCEPT
                                               !.used = u.ret.used,
                                               !.limit = u.ret.limit])]

\* lines 225-251: the try block of the image handler
ImageTryBlock(storage, ip, t, upload, method, intensity) ==
    IF upload.decoded = NoImage
    THEN [out |-> RaiseExc(Exc("HTTPException", 400, Msg("Invalid image file"))),
          trace |-> <<"imdecode">>, storage |-> storage]
    ELSE LET r == process_image(upload.decoded.image, upload.decoded.primary,
                                upload.decoded.cascade, method, intensity) IN
         IF r.kind = "raise"
         THEN [out |-> RaiseExc(Exc("cv2.error", 0, Msg("cv2.error"))),
               trace |-> <<"imdecode", "process_image">>, storage |-> storage]
         ELSE LET u == get_remaining_uses(storage, ip, t) IN
              [out |-> Return(Response([image |-> r.value.image,
                                        faces |-> r.value.count,
                                        remaining |-> u.ret.remaining,
                                        used |-> u.ret.used])),
               trace |-> <<"imdecode", "process_image", "imencode">>,
               storage |-> u.storage]

\* lines 253-254, 320-321: except Exception as e: raise HTTPException(500, str(e))
ExceptException(e) == HTTPException(500, StrOf(e))

\* lines 203-254: anonymize_image_endpoint
anonymize_image_endpoint(storage, t, req) ==
    LET gate == RateGate(storage, req.ip, t)
        is_image == StartsWith(req.file.content_type, "image/") IN
    IF ~gate.pass
    THEN [response |-> gate.response, trace |-> <<>>, storage |-> gate.storage]
    ELSE IF is_image.kind = "raise"
    THEN [response |-> Unhandled(is_image.value), trace |-> <<>>, storage |-> gate.storage]
    ELSE IF ~is_image.value
    THEN [response |-> HTTPException(400, Msg("File must be an image")), trace |-> <<>>,
          storage |-> gate.storage]
    ELSE LET b == ImageTryBlock(gate.storage, req.ip, t, req.file, req.method,
                                req.intensity) IN
         [response |-> IF b.out.kind = "raise" THEN ExceptException(b.out.value)
                       ELSE b.out.value,
          trace |-> b.trace, storage |-> b.storage]

ApiClients == {"10.0.0.1"}

ImageRequests ==
    {[kind |-> "image", ip |-> ip, file |-> Named(u, "upload"),
      method |-> pa.method, intensity |-> pa.intensity] :
        ip \in ApiClients, u \in UploadKinds, pa \in ApiParams}

EpInit ==
    /\ ep_pc = "idle"
    /\ ep_req = <<>>
    /\ ep_locals = <<>>
    /\ ep_files = {}
    /\ ep_results = <<>>
    /\ ep_response = <<>>
    /\ ep_trace = <<>>
    /\ ep_served = 0

\* The answer has been sent: the handler's frame is dropped
Recycle ==
    /\ ep_pc = "responded"
    /\ ep_pc' = "idle"
    /\ ep_req' = <<>>
    /\ ep_locals' = <<>>
    /\ ep_results' = <<>>
    /\ ep_response' = <<>>
    /\ ep_trace' = <<>>
    /\ UNCHANGED <<ep_files, ep_served, rateVars>>

\* One request to POST /api/anonymize/image, from its arrival to its answer
AnonymizeImage(req) ==
    /\ ep_pc = "idle"
    /\ ep_served < MaxRequests
    /\ \E r \in {anonymize_image_endpoint(rate_limit_storage, now, req)} :
       /\ rate_limit_storage' = r.storage
       /\ ep_response' = r.response
       /\ ep_trace' = r.trace
    /\ ep_req' = req
    /\ ep_pc' = "responded"
    /\ ep_served' = ep_served + 1
    /\ UNCHANGED <<ep_locals, ep_files, ep_results, now, accepted, last>>

(***************************************************************************)
(* POST /api/anonymize/video, lines 256-328, statement by statement.  The  *)
(* temporary files present are ep_files; tempfile names a new file with a  *)
(* name not in use.                                                        *)
(***************************************************************************)
ApiVideos == {v \in Videos : Len(v.frames) <= 1}

VideoRequests ==
    {[kind |-> "video", ip |-> ip, file |-> [filename |-> "upload", content_type |-> "video/mp4"],
      video |-> v, method |-> pa.method, intensity |-> pa.intensity] :
        ip \in ApiClients, v \in ApiVideos, pa \in ApiParams}
    \cup
    {[kind |-> "video", ip |-> ip, file |-> [filename |-> "upload", content_type |-> ct],
      video |-> [opened |-> FALSE, frames |-> <<>>], method |-> "blur", intensity |-> 1] :
        ip \in ApiClients, ct \in {"text/plain", "None"}}

\* The path of a new temporary file: <<"tmp", n>> for the first n not in use
FreshFile(files) ==
    LET n == CHOOSE k \in 1..(Cardinality(files) + 1) :
                 <<"tmp", k>> \notin files /\ \A m \in 1..(k - 1) : <<"tmp", m>> \in files
    IN <<"tmp", n>>

NoException == Exc("none", 0, Msg(""))
Pending == [kind |-> "pending", status |-> 0, detail |-> Msg(""), body |-> NoBody]

\* lines 264-278: the gate, the content-type check and the two None locals;
\* temp_input_path and temp_output_path are not bound yet
VideoArrives(req) ==
    /\ ep_pc = "idle"
    /\ ep_served < MaxRequests
    /\ ep_req' = req
    /\ LET gate == RateGate(rate_limit_storage, req.ip, now)
           is_video == StartsWith(req.file.content_type, "video/") IN
       /\ rate_limit_storage' = gate.storage
       /\ IF ~gate.pass
          THEN ep_response' = gate.response /\ ep_pc' = "responded"
          ELSE IF is_video.kind = "raise"
          THEN ep_response' = Unhandled(is_video.value) /\ ep_pc' = "responded"
          ELSE IF ~is_video.value
          THEN /\ ep_response' = HTTPException(400, Msg("File must be a video"))
               /\ ep_pc' = "responded"
          ELSE ep_response' = Pending /\ ep_pc' = "save_input"
       /\ ep_served' = IF ep_pc' = "responded" THEN ep_served + 1 ELSE ep_served
    /\ ep_locals' = [temp_input_path |-> Unbound, temp_output_path |-> Unbound,
                     exc |-> NoException, pending |-> Pending,
                     total_faces |-> 0, frames_processed |-> 0]
    /\ ep_trace' = <<>>
    /\ UNCHANGED <<ep_files, ep_results, now, accepted, last>>

\* line 282: NamedTemporaryFile raises; no file was made
SaveInputCreateFails ==
    /\ ep_pc = "save_input"
    /\ ep_locals' = [ep_locals EXCEPT !.exc = Exc("OSError", 0, Msg("OSError"))]
    /\ ep_pc' = "except"
    /\ ep_trace' = Append(ep_trace, "input tempfile failed")
    /\ UNCHANGED <<ep_req, ep_files, ep_results, ep_response, ep_served, rateVars>>

\* lines 282-284: the file is made (delete=False), then reading the upload
\* or writing it raises: the with block closes the file and the exception
\* goes on, before line 285 binds temp_input_path
SaveInputWriteFails ==
    /\ ep_pc = "save_input"
    /\ ep_files' = ep_files \cup {FreshFile(ep_files)}
    /\ ep_locals' = [ep_locals EXCEPT !.exc = Exc("OSError", 0, Msg("OSError"))]
    /\ ep_pc' = "except"
    /\ ep_trace' = Append(ep_trace, "saving the upload failed")
    /\ UNCHANGED <<ep_req, ep_results, ep_response, ep_served, rateVars>>

\* lines 282-285: the upload is saved and temp_input_path bound
SaveInputOk ==
    /\ ep_pc = "save_input"
    /\ ep_files' = ep_files \cup {FreshFile(ep_files)}
    /\ ep_locals' = [ep_locals EXCEPT !.temp_input_path = FreshFile(ep_files)]
    /\ ep_pc' = "create_output"
    /\ UNCHANGED <<ep_req, ep_results, ep_response, ep_trace, ep_served, rateVars>>

\* line 288: NamedTemporaryFile raises; no output file was made
CreateOutputFails ==
    /\ ep_pc = "create_output"
    /\ ep_locals' = [ep_locals EXCEPT !.exc = Exc("OSError", 0, Msg("OSError"))]
    /\ ep_pc' = "except"
    /\ ep_trace' = Append(ep_trace, "output tempfile failed")
    /\ UNCHANGED <<ep_req, ep_files, ep_results, ep_response, ep_served, rateVars>>

\* lines 288-290: the output file is made and temp_output_path bound
CreateOutputOk ==
    /\ ep_pc = "create_output"
    /\ ep_files' = ep_files \cup {FreshFile(ep_files)}
    /\ ep_locals' = [ep_locals EXCEPT !.temp_output_path = FreshFile(ep_files)]
    /\ ep_pc' = "process"
    /\ UNCHANGED <<ep_req, ep_results, ep_response, ep_trace, ep_served, rateVars>>

\* lines 293-298: process_video is called
CallProcessVideo ==
    /\ ep_pc = "process"
    /\ ep_pc' = "in process_video"
    /\ v_pc' = "open"
    /\ v_video' = ep_req.video
    /\ v_method' = ep_req.method
    /\ v_intensity' = ep_req.intensity
    /\ UNCHANGED <<v_pos, v_frame, v_processed, v_written, frame_count, total_faces,
                   cap_released, out_released, v_return>>
    /\ UNCHANGED <<ep_req, ep_locals, ep_files, ep_results, ep_response, ep_trace,
                   ep_served, rateVars>>

\* process_video's frame is dropped when it is left
VideoReset ==
    /\ v_pc' = "idle"
    /\ v_video' = <<>>
    /\ v_method' = "blur"
    /\ v_intensity' = 1
    /\ v_pos' = 0
    /\ v_frame' = <<>>
    /\ v_processed' = <<>>
    /\ v_written' = <<>>
    /\ frame_count' = 0
    /\ total_faces' = 0
    /\ cap_released' = FALSE
    /\ out_released' = FALSE
    /\ v_return' = NotCalled

\* line 293: process_video returns (total_faces, frame_count)
ProcessVideoReturns ==
    /\ ep_pc = "in process_video"
    /\ v_pc = "returned"
    /\ ep_locals' = [ep_locals EXCEPT !.total_faces = v_return.value[1],
                                      !.frames_processed = v_return.value[2]]
    /\ ep_pc' = "read_result"
    /\ VideoReset
    /\ UNCHANGED <<ep_req, ep_files, ep_results, ep_response, ep_trace, ep_served, rateVars>>

\* line 293: process_video raises
ProcessVideoRaises ==
    /\ ep_pc = "in process_video"
    /\ v_pc = "raised"
    /\ ep_locals' = [ep_locals EXCEPT !.exc = Exc("cv2.error", 0, Msg("cv2.error"))]
    /\ ep_pc' = "except"
    /\ ep_trace' = Append(ep_trace, "process_video failed")
    /\ VideoReset
    /\ UNCHANGED <<ep_req, ep_files, ep_results, ep_response, ep_served, rateVars>>

\* lines 301-302: opening or reading the processed video raises
ReadResultFails ==
    /\ ep_pc = "read_result"
    /\ ep_locals' = [ep_locals EXCEPT !.exc = Exc("OSError", 0, Msg("OSError"))]
    /\ ep_pc' = "except"
    /\ ep_trace' = Append(ep_trace, "reading the result failed")
    /\ UNCHANGED <<ep_req, ep_files, ep_results, ep_response, ep_served, rateVars>>

\* lines 301-318: the processed video is read and the response built
ReadResultOk ==
    /\ ep_pc = "read_result"
    /\ LET u == get_remaining_uses(rate_limit_storage, ep_req.ip, now) IN
       /\ rate_limit_storage' = u.storage
       /\ ep_locals' = [ep_locals EXCEPT !.pending =
              Response([faces |-> ep_locals.total_faces,
                        frames |-> ep_locals.frames_processed,
                        remaining |-> u.ret.remaining, used |-> u.ret.used])]
    /\ ep_pc' = "finally"
    /\ ep_trace' = Append(ep_trace, "success")
    /\ UNCHANGED <<ep_req, ep_files, ep_results, ep_response, ep_served, now, accepted, last>>

\* lines 320-321
VideoExcept ==
    /\ ep_pc = "except"
    /\ ep_locals' = [ep_locals EXCEPT !.pending = ExceptException(ep_locals.exc)]
    /\ ep_pc' = "finally"
    /\ UNCHANGED <<ep_req, ep_files, ep_results, ep_response, ep_trace, ep_served, rateVars>>

\* lines 325-326 and 327-328: reading a local that was never bound raises
\* UnboundLocalError; a bound path is unlinked when the file exists
Unlink(path, files) ==
    IF path = Unbound THEN [raised |-> TRUE, files |-> files]
    ELSE [raised |-> FALSE, files |-> files \ {path}]

\* lines 323-328: the finally block, and what leaves the handler after it
video_finally(locals, files) ==
    LET first == Unlink(locals.temp_input_path, files) IN
    IF first.raised
    THEN [response |-> Unhandled(Exc("UnboundLocalError", 0, Msg("UnboundLocalError"))),
          files |-> first.files]
    ELSE LET second == Unlink(locals.temp_output_path, first.files) IN
         IF second.raised
         THEN [response |-> Unhandled(Exc("UnboundLocalError", 0, Msg("UnboundLocalError"))),
               files |-> second.files]
         ELSE [response |-> locals.pending, files |-> second.files]

VideoFinally ==
    /\ ep_pc = "finally"
    /\ LET f == video_finally(ep_locals, ep_files) IN
       /\ ep_response' = f.response
       /\ ep_files' = f.files
    /\ ep_pc' = "responded"
    /\ ep_served' = ep_served + 1
    /\ UNCHANGED <<ep_req, ep_locals, ep_results, ep_trace, rateVars>>

(***************************************************************************)
(* POST /api/anonymize/batch, lines 330-403, file by file.                 *)
(***************************************************************************)
BatchFiles ==
    {[i \in DOMAIN us |-> Named(us[i], i)] : us \in SeqsUpTo(UploadKinds, MaxBatch)}
    \cup {[i \in 1..(BATCH_LIMIT + 1) |->
              Named([content_type |-> "image/png", decoded |-> NoImage], i)]}

BatchRequests ==
    {[kind |-> "batch", ip |-> ip, files |-> fs,
      method |-> pa.method, intensity |-> pa.intensity] :
        ip \in ApiClients, fs \in BatchFiles, pa \in ApiParams}

ErrorEntry(file, msg) ==
    [filename |-> file.filename, status |-> "error", error |-> msg]

BatchOnExceptionDropped(file, e) == <<>>

\* lines 391-396: the handler of the per-file try block
BatchOnException(file, e) == <<ErrorEntry(file, StrOf(e))>>

\* lines 353-396: what one file appends to results
batch_entry(file, method, intensity) ==
    LET is_image == StartsWith(file.content_type, "image/") IN
    IF is_image.kind = "raise" THEN BatchOnException(file, is_image.value)
    ELSE IF ~is_image.value THEN <<ErrorEntry(file, Msg("Not an image file"))>>
    ELSE IF file.decoded = NoImage THEN <<ErrorEntry(file, Msg("Invalid image"))>>
    ELSE LET r == process_image(file.decoded.image, file.decoded.primary,
                                file.decoded.cascade, method, intensity) IN
         IF r.kind = "raise"
         THEN BatchOnException(file, Exc("cv2.error", 0, Msg("cv2.error")))
         ELSE <<[filename |-> file.filename, status |-> "success",
                 faces_detected |-> r.value.count, image_data |-> r.value.image]>>

\* lines 338-350: the gate, the size check and the empty result list
BatchArrives(req) ==
    /\ ep_pc = "idle"
    /\ ep_served < MaxRequests
    /\ ep_req' = req
    /\ LET gate == RateGate(rate_limit_storage, req.ip, now) IN
       /\ rate_limit_storage' = gate.storage
       /\ IF ~gate.pass
          THEN ep_response' = gate.response /\ ep_pc' = "responded"
          ELSE IF Len(req.files) > BATCH_LIMIT
          THEN /\ ep_response' = HTTPException(400, Msg("Maximum 10 files per batch"))
               /\ ep_pc' = "responded"
          ELSE ep_response' = Pending /\ ep_pc' = "batch_loop"
       /\ ep_served' = IF ep_pc' = "responded" THEN ep_served + 1 ELSE ep_served
    /\ ep_locals' = [i |-> 1]
    /\ ep_results' = <<>>
    /\ ep_trace' = <<>>
    /\ UNCHANGED <<ep_files, now, accepted, last>>

\* lines 352-396: one iteration of the loop over the files
BatchFile ==
    /\ ep_pc = "batch_loop"
    /\ ep_locals.i <= Len(ep_req.files)
    /\ ep_results' = ep_results \o batch_entry(ep_req.files[ep_locals.i], ep_req.method,
                                               ep_req.intensity)
    /\ ep_locals' = [ep_locals EXCEPT !.i = @ + 1]
    /\ UNCHANGED <<ep_pc, ep_req, ep_files, ep_response, ep_trace, ep_served, rateVars>>

\* lines 398-403: the loop is over; the results are returned
BatchRespond ==
    /\ ep_pc = "batch_loop"
    /\ ep_locals.i > Len(ep_req.files)
    /\ LET u == get_remaining_uses(rate_limit_storage, ep_req.ip, now) IN
       /\ rate_limit_storage' = u.storage
       /\ ep_response' = Response([results |-> ep_results, rate_limit |-> u.ret])
    /\ ep_pc' = "responded"
    /\ ep_served' = ep_served + 1
    /\ UNCHANGED <<ep_req, ep_locals, ep_files, ep_results, ep_trace, now, accepted, last>>

(***************************************************************************)
(* The values of the variables a specification does not use.               *)
(***************************************************************************)
RateIdle ==
    /\ rate_limit_storage = [ip \in IPs |-> <<>>]
    /\ now = 0
    /\ accepted = [ip \in IPs |-> <<>>]
    /\ last = [op |-> "none"]

DetIdle ==
    /\ det_pc = "idle"
    /\ det_lib = [primary |-> NotCalled, cascade |-> NotCalled]
    /\ det_calls = <<>>
    /\ det_result = NotCalled
    /\ det_count = NotCalled

AnIdle ==
    /\ an_pc = "idle"
    /\ an_image = Uniform(0, 0, 0)
    /\ an_orig = Uniform(0, 0, 0)
    /\ an_args = <<>>
    /\ an_target = <<>>

VideoIdle ==
    /\ v_pc = "idle"
    /\ v_video = <<>>
    /\ v_method = "blur"
    /\ v_intensity = 1
    /\ v_pos = 0
    /\ v_frame = <<>>
    /\ v_processed = <<>>
    /\ v_written = <<>>
    /\ frame_count = 0
    /\ total_faces = 0
    /\ cap_released = FALSE
    /\ out_released = FALSE
    /\ v_return = NotCalled

EpIdle ==
    /\ ep_pc = "idle"
    /\ ep_req = <<>>
    /\ ep_locals = <<>>
    /\ ep_files = {}
    /\ ep_results = <<>>
    /\ ep_response = <<>>
    /\ ep_trace = <<>>
    /\ ep_served = 0

(***************************************************************************)
(* The specifications.                                                     *)
(***************************************************************************)
InitRate == RateInit /\ DetIdle /\ AnIdle /\ VideoIdle /\ EpIdle
NextRate ==
    \/ Tick /\ UNCHANGED <<detVars, anVars, videoVars, epVars>>
    \/ \E ip \in IPs : CallCheckRateLimit(ip) /\ UNCHANGED <<detVars, anVars, videoVars, epVars>>
    \/ \E ip \in IPs : CallGetRemainingUses(ip) /\ UNCHANGED <<detVars, anVars, videoVars, epVars>>
SpecRate == InitRate /\ [][NextRate]_vars

InitAnon == AnInit /\ RateIdle /\ DetIdle /\ VideoIdle /\ EpIdle
NextAnon == AnonymizeFace /\ UNCHANGED <<rateVars, detVars, videoVars, epVars>>
SpecAnon == InitAnon /\ [][NextAnon]_vars

InitDetect == DetInit /\ RateIdle /\ AnIdle /\ VideoIdle /\ EpIdle
NextDetect ==
    \/ \E out \in PrimaryOutcomes \ {Raise} :
          PrimaryReturns(out.value) /\ UNCHANGED <<rateVars, anVars, videoVars, epVars>>
    \/ PrimaryRaises /\ UNCHANGED <<rateVars, anVars, videoVars, epVars>>
    \/ \E c \in CascadeOutcomes :
          CascadeAnswers(c) /\ UNCHANGED <<rateVars, anVars, videoVars, epVars>>
    \/ \E pa \in ApiParams :
          ProcessImage(pa.method, pa.intensity) /\ UNCHANGED <<rateVars, anVars, videoVars, epVars>>
SpecDetect == InitDetect /\ [][NextDetect]_vars

InitVideo == VideoInit /\ RateIdle /\ DetIdle /\ AnIdle /\ EpIdle
NextVideo ==
    \/ OpenVideo /\ UNCHANGED <<rateVars, detVars, anVars, epVars>>
    \/ LoopTest /\ UNCHANGED <<rateVars, detVars, anVars, epVars>>
    \/ ReadFrame /\ UNCHANGED <<rateVars, detVars, anVars, epVars>>
    \/ ProcessStep /\ UNCHANGED <<rateVars, detVars, anVars, epVars>>
    \/ WriteFrame /\ UNCHANGED <<rateVars, detVars, anVars, epVars>>
    \/ CountFrame /\ UNCHANGED <<rateVars, detVars, anVars, epVars>>
    \/ ReleaseAndReturn /\ UNCHANGED <<rateVars, detVars, anVars, epVars>>
SpecVideo == InitVideo /\ [][NextVideo]_vars

InitImageApi == RateInit /\ EpInit /\ DetIdle /\ AnIdle /\ VideoIdle
NextImageApi ==
    \/ Tick /\ UNCHANGED <<detVars, anVars, videoVars, epVars>>
    \/ \E req \in ImageRequests :
          AnonymizeImage(req) /\ UNCHANGED <<detVars, anVars, videoVars>>
    \/ Recycle /\ UNCHANGED <<detVars, anVars, videoVars>>
SpecImageApi == InitImageApi /\ [][NextImageApi]_vars

InProcessVideo(step) ==
    ep_pc = "in process_video" /\ step /\ UNCHANGED <<rateVars, detVars, anVars, epVars>>

InitVideoApi == RateInit /\ EpInit /\ DetIdle /\ AnIdle /\ VideoIdle
NextVideoApi ==
    \/ Tick /\ UNCHANGED <<detVars, anVars, videoVars, epVars>>
    \/ \E req \in VideoRequests :
          VideoArrives(req) /\ UNCHANGED <<detVars, anVars, videoVars>>
    \/ SaveInputCreateFails /\ UNCHANGED <<detVars, anVars, videoVars>>
    \/ SaveInputWriteFails /\ UNCHANGED <<detVars, anVars, videoVars>>
    \/ SaveInputOk /\ UNCHANGED <<detVars, anVars, videoVars>>
    \/ CreateOutputFails /\ UNCHANGED <<detVars, anVars, videoVars>>
    \/ CreateOutputOk /\ UNCHANGED <<detVars, anVars, videoVars>>
    \/ CallProcessVideo /\ UNCHANGED <<detVars, anVars>>
    \/ InProcessVideo(OpenVideo)
    \/ InProcessVideo(LoopTest)
    \/ InProcessVideo(ReadFrame)
    \/ InProcessVideo(ProcessStep)
    \/ InProcessVideo(WriteFrame)
    \/ InProcessVideo(CountFrame)
    \/ InProcessVideo(ReleaseAndReturn)
    \/ ProcessVideoReturns /\ UNCHANGED <<detVars, anVars>>
    \/ ProcessVideoRaises /\ UNCHANGED <<detVars, anVars>>
    \/ ReadResultFails /\ UNCHANGED <<detVars, anVars, videoVars>>
    \/ ReadResultOk /\ UNCHANGED <<detVars, anVars, videoVars>>
    \/ VideoExcept /\ UNCHANGED <<detVars, anVars, videoVars>>
    \/ VideoFinally /\ UNCHANGED <<detVars, anVars, videoVars>>
    \/ Recycle /\ UNCHANGED <<detVars, anVars, videoVars>>
SpecVideoApi == InitVideoApi /\ [][NextVideoApi]_vars

\* The requests of a batch run arrive within one tick of the clock
InitBatchApi == RateInit /\ EpInit /\ DetIdle /\ AnIdle /\ VideoIdle
NextBatchApi ==
    \/ \E req \in BatchRequests :
          BatchArrives(req) /\ UNCHANGED <<detVars, anVars, videoVars>>
    \/ BatchFile /\ UNCHANGED <<detVars, anVars, videoVars>>
    \/ BatchRespond /\ UNCHANGED <<detVars, anVars, videoVars>>
    \/ Recycle /\ UNCHANGED <<detVars, anVars, videoVars>>
SpecBatchApi == InitBatchApi /\ [][NextBatchApi]_vars

(***************************************************************************)
(* Request handler properties.                                             *)
(***************************************************************************)
PassedGate(resp) == ~(resp.kind = "HTTPException" /\ resp.status = 429)

\* C6: an image upload that does not decode is answered with the
\* invalid-image error (400, 'Invalid image file'), not with a generic
\* processing error, and process_image is not called for it.
C6_InvalidImageIs400 ==
    /\ ep_pc = "responded" /\ ep_req.kind = "image" /\ PassedGate(ep_response)
    /\ ep_req.file.content_type = "image/png" /\ ep_req.file.decoded = NoImage
    => /\ ep_response.kind = "HTTPException"
       /\ ep_response.status = 400
       /\ ep_response.detail = Msg("Invalid image file")
       /\ "process_image" \notin Range(ep_trace)

\* C9: once a video request that passed the gate and the content-type
\* check is finished, whatever its outcome, no temporary file is left and
\* the cleanup has not raised an error of its own in place of the outcome.
C9_TempFilesCleaned ==
    ep_pc = "responded" /\ ep_req.kind = "video" =>
        /\ ep_files = {}
        /\ ep_response.detail.text # "UnboundLocalError"

\* Whether the loop body fails for this file
FileFails(file, method, intensity) ==
    \/ file.content_type # "image/png"
    \/ file.decoded = NoImage
    \/ process_image(file.decoded.image, file.decoded.primary, file.decoded.cascade,
                     method, intensity).kind = "raise"

EntryDescribes(entry, file) ==
    /\ entry.filename = file.filename
    /\ entry.status = IF FileFails(file, ep_req.method, ep_req.intensity)
                      THEN "error" ELSE "success"

\* C4: a batch that passed the gate and the size check is answered with a
\* result list of one entry per file, in the order of the files, an entry
\* being an error exactly when its own file fails.
C4_BatchIsolatesFailures ==
    /\ ep_pc = "batch_loop" =>
          /\ Len(ep_results) = ep_locals.i - 1
          /\ \A k \in 1..Len(ep_results) : EntryDescribes(ep_results[k], ep_req.files[k])
    /\ ep_pc = "responded" /\ ep_req.kind = "batch" /\ PassedGate(ep_response)
          /\ Len(ep_req.files) <= BATCH_LIMIT =>
          /\ ep_response.kind = "response"
          /\ ep_response.status = 200
          /\ Len(ep_response.body.results) = Len(ep_req.files)
          /\ \A k \in 1..Len(ep_req.files) :
                EntryDescribes(ep_response.body.results[k], ep_req.files[k])

\* A batch of three images, one of them undecodable, was answered with one
\* error and two successes
C4_Witness ==
    /\ ep_pc = "responded"
    /\ ep_req.kind = "batch"
    /\ ep_response.kind = "response"
    /\ Len(ep_req.files) = 3
    /\ \A k \in 1..3 : ep_req.files[k].content_type = "image/png"
    /\ ep_req.files[2].decoded = NoImage
    /\ ep_response.body.results[1].status = "success"
    /\ ep_response.body.results[2].status = "error"
    /\ ep_response.body.results[3].status = "success"

(***************************************************************************)
(* Rate limiter properties.                                                *)
(***************************************************************************)
Count(stamps, t) == Len(SelectSeq(stamps, LAMBDA ts : ts = t))

\* The call just made for ip added no timestamp to ip's list
RecordsNothing(ip) ==
    \A t \in 0..MaxTime :
        Count(rate_limit_storage'[ip], t) <= Count(rate_limit_storage[ip], t)

OthersUntouched(ip) ==
    \A other \in IPs \ {ip} : rate_limit_storage'[other] = rate_limit_storage[other]

StoredAtMostLimit == \A ip \in IPs : Len(rate_limit_storage[ip]) <= RATE_LIMIT

\* Any RATE_LIMIT + 1 accepted calls of one IP span at least the window
AcceptedAtMostLimitPerWindow ==
    \A ip \in IPs : \A i \in 1..Len(accepted[ip]) :
        i + RATE_LIMIT <= Len(accepted[ip]) =>
            accepted[ip][i + RATE_LIMIT] - accepted[ip][i] >= RATE_LIMIT_WINDOW

RateStep ==
    /\ last'.op = "check" /\ ~last'.ret => RecordsNothing(last'.ip)
    /\ last'.op = "remaining" =>
          /\ RecordsNothing(last'.ip)
          /\ last'.ret.used + last'.ret.remaining = last'.ret.limit
          /\ last'.ret.limit = RATE_LIMIT
    /\ last'.op \in {"check", "remaining"} => OthersUntouched(last'.ip)

\* C10: for interleaved check_rate_limit and get_remaining_uses calls at
\* non-decreasing times, no IP's stored list exceeds RATE_LIMIT entries, no
\* IP is accepted more than RATE_LIMIT times within a window, a refused call
\* and get_remaining_uses record no timestamp, get_remaining_uses reports
\* used + remaining = limit, and a call never changes another IP's list.
C10_RateLimiter ==
    /\ [](StoredAtMostLimit /\ AcceptedAtMostLimitPerWindow)
    /\ [][RateStep]_vars

\* An IP was accepted RATE_LIMIT times, refused, accepted again once the
\* window had passed, and is refused again while the other IP holds stamps
C10_Witness ==
    \E ip \in IPs :
        /\ Len(accepted[ip]) > RATE_LIMIT
        /\ last.op = "check"
        /\ last.ip = ip
        /\ ~last.ret
        /\ \E other \in IPs \ {ip} : rate_limit_storage[other] # <<>>

(***************************************************************************)
(* Face locator properties.                                                *)
(***************************************************************************)
\* C2: detect_faces_deepface always returns a list; the cascade detector
\* is invoked exactly when the primary raised; when the cascade raises too
\* the result is the empty list.
C2_LocatorNeverRaises ==
    det_pc \in {"located", "done"} =>
        /\ det_result.kind = "return"
        /\ IsList(det_result.value)
        /\ ("opencv" \in Range(det_calls)) <=> (det_lib.primary.kind = "raise")
        /\ det_lib.cascade.kind = "raise" => det_result.value = <<>>

\* Both detectors raised and the locator returned the empty list
C2_Witness ==
    /\ det_pc = "located"
    /\ det_lib.primary.kind = "raise"
    /\ det_lib.cascade.kind = "raise"
    /\ det_result = Return(<<>>)

HasGeometry(face) ==
    /\ "facial_area" \in DOMAIN face
    /\ AreaKeys \subseteq DOMAIN face.facial_area

ValidRegion(r) == r[1] >= 0 /\ r[2] >= 0 /\ r[3] > 0 /\ r[4] > 0

\* C8: on the primary path every returned region has x, y >= 0 and
\* w, h > 0, and a detection result missing geometry (no facial_area, an
\* empty one, or one lacking x, y, w or h) adds no region and no count.
C8_RegionsValid ==
    det_pc \in {"located", "done"} /\ det_lib.primary.kind = "return" =>
        LET complete == SelectSeq(det_lib.primary.value, HasGeometry) IN
        /\ \A i \in DOMAIN det_result.value : ValidRegion(det_result.value[i])
        /\ Len(det_result.value) = Len(complete)
        /\ det_count.kind = "return" => det_count.value = Len(complete)

(***************************************************************************)
(* Region anonymizer properties.                                           *)
(***************************************************************************)
InBounds(image, a) ==
    /\ a.x >= 0 /\ a.y >= 0 /\ a.w > 0 /\ a.h > 0
    /\ a.x + a.w <= image.w /\ a.y + a.h <= image.h

InRegion(p, a) ==
    /\ a.y <= p[1] /\ p[1] < a.y + a.h
    /\ a.x <= p[2] /\ p[2] < a.x + a.w

\* C3: for a region with w > 0 and h > 0 (inside the frame) and a positive
\* intensity, pixelate does not fail and its downscale target has both
\* dimensions >= 1.
C3_PixelateNeverCollapses ==
    an_pc \in {"returned", "raised"} /\ an_args.method = "pixelate"
        /\ InBounds(an_orig, an_args) /\ an_args.intensity > 0 =>
            /\ an_pc = "returned"
            /\ an_target[1] >= 1
            /\ an_target[2] >= 1

\* C7: for a region inside the frame, after mask every pixel of the region
\* is zero, every pixel outside it keeps its value and the frame keeps its
\* width and height.
C7_MaskZeroesRegion ==
    an_pc \in {"returned", "raised"} /\ an_args.method = "mask"
        /\ InBounds(an_orig, an_args) =>
            /\ an_pc = "returned"
            /\ an_image.h = an_orig.h
            /\ an_image.w = an_orig.w
            /\ DOMAIN an_image.px = DOMAIN an_orig.px
            /\ \A p \in DOMAIN an_orig.px :
                  an_image.px[p] = IF InRegion(p, an_args) THEN 0 ELSE an_orig.px[p]

\* A proper sub-rectangle of a frame without zero pixels was masked
C7_Witness ==
    /\ an_pc = "returned"
    /\ an_args.method = "mask"
    /\ InBounds(an_orig, an_args)
    /\ an_orig = Gradient(FrameH, FrameW)
    /\ an_args.w * an_args.h > 1
    /\ an_args.w * an_args.h < FrameW * FrameH
    /\ an_image # an_orig

(***************************************************************************)
(* Video pipeline properties.                                              *)
(***************************************************************************)
\* What process_image returns for the k-th frame of the video
Expected(k) == ProcessFrame(v_video.frames[k], v_method, v_intensity).value

RECURSIVE FacesUpTo(_)
FacesUpTo(n) == IF n = 0 THEN 0 ELSE FacesUpTo(n - 1) + Expected(n).count

\* C1: whenever process_video is left, by return or by exception, the
\* capture and the writer have been released.
C1_HandlesReleased ==
    v_pc \in {"returned", "raised"} => cap_released /\ out_released

\* The frames written are the processed copies of the frames read, in
\* capture order
WrittenInOrder ==
    /\ Len(v_written) <= v_pos
    /\ v_pos <= Len(v_video.frames)
    /\ \A k \in 1..Len(v_written) : v_written[k] = Expected(k).image

CountersMatch ==
    /\ frame_count = Len(v_written)
    /\ total_faces = FacesUpTo(Len(v_written))

ReturnsAll ==
    v_pc = "returned" /\ v_video.opened =>
        /\ Len(v_written) = Len(v_video.frames)
        /\ v_return = Return(<<FacesUpTo(Len(v_video.frames)), Len(v_video.frames)>>)

====
